---- MODULE Spec2Model ----
(***************************************************************************)
(* Model of crates/re_viewer/src/ui/view_spatial/scene/scene_part/         *)
(* boxes3d.rs: the two scene parts that turn logged 3D boxes into line     *)
(* segments and labels (Boxes3DPartClassic over the legacy object store,   *)
(* Boxes3DPart over the columnar store), and transformed_box_segments.     *)
(*                                                                         *)
(* Numbers.  Positions (Vec3 points, translations) are fixed-point with    *)
(* one fractional bit: the integer n stands for n/2, so the unit cube's    *)
(* corners (+-0.5) are exact.  Scales, matrix entries and quaternion       *)
(* components are plain integers.  Stroke widths and radii are even        *)
(* integers, so that w / 2.0 is exact as w \div 2.                         *)
(***************************************************************************)
EXTENDS Integers, Sequences, FiniteSets, TLC

VARIABLES
    entities,          \* the frame's entity list with the data each store holds
    hovered_instance,  \* the hovered InstanceIdHash handed to both loads
    phase,             \* which call is running: "classic", "arrow", "done", "geom"
    idx,               \* position of the running load's for-loop in the list
    classic_scene,     \* the SceneSpatial Boxes3DPartClassic::load writes to
    arrow_scene,       \* the SceneSpatial Boxes3DPart::load writes to
    log,               \* entries emitted by re_log::error_once!
    transform,         \* argument of a direct call of transformed_box_segments
    geom_out           \* what that call returned (<<>> before the call)

vars == <<entities, hovered_instance, phase, idx, classic_scene, arrow_scene,
          log, transform, geom_out>>

\* ------------------------------------------------------------------ bounds
MaxEntities == 2
MaxInstances == 2

\* ----------------------------------------------------------------- options
None == <<>>
Some(v) == <<v>>
IsSome(o) == o # <<>>
Unwrap(o) == o[1]

\* ---------------------------------------------------------------- geometry
ZERO == <<0, 0, 0>>

QuatIdentity == <<0, 0, 0, 1>>

Dot(u, v) == u[1] * v[1] + u[2] * v[2] + u[3] * v[3]

transform_point3(A, p) ==
    << Dot(A.m[1], p) + A.t[1], Dot(A.m[2], p) + A.t[2], Dot(A.m[3], p) + A.t[3] >>

\* Rotation matrix of a unit quaternion <<x, y, z, w>>.
QuatToMat3(q) ==
    LET x == q[1]  y == q[2]  z == q[3]  w == q[4] IN
    << << 1 - 2 * (y * y + z * z), 2 * (x * y - w * z), 2 * (x * z + w * y) >>,
       << 2 * (x * y + w * z), 1 - 2 * (x * x + z * z), 2 * (y * z - w * x) >>,
       << 2 * (x * z - w * y), 2 * (y * z + w * x), 1 - 2 * (x * x + y * y) >> >>

\* Scale first, then rotate, then translate.
from_scale_rotation_translation(scale, rot, tran) ==
    LET r == QuatToMat3(rot) IN
    [ m |-> [i \in 1..3 |-> [j \in 1..3 |-> r[i][j] * scale[j]]], t |-> tran ]

\* Vertices for a unit cube at the origin (in halves: -1 is -0.5).
UNIT_CUBE ==
    << <<-1, -1, -1>>, <<-1, -1, 1>>, <<-1, 1, -1>>, <<-1, 1, 1>>,
       <<1, -1, -1>>,  <<1, -1, 1>>,  <<1, 1, -1>>,  <<1, 1, 1>> >>

\* A variant of the edge table with a face diagonal in place of an edge.
BoxEdgesDiagonal ==
    << <<0, 1>>, <<0, 2>>, <<3, 0>>, <<3, 2>>,
       <<4, 5>>, <<4, 6>>, <<7, 5>>, <<7, 6>>,
       <<0, 4>>, <<1, 5>>, <<2, 6>>, <<3, 7>> >>

\* The corner indices (0-based, as in the source) of the segments, in order:
\* bottom, top, sides.
BoxEdges ==
    << <<0, 1>>, <<0, 2>>, <<3, 1>>, <<3, 2>>,
       <<4, 5>>, <<4, 6>>, <<7, 5>>, <<7, 6>>,
       <<0, 4>>, <<1, 5>>, <<2, 6>>, <<3, 7>> >>

transformed_box_segments(T) ==
    LET corners == [k \in 1..Len(UNIT_CUBE) |-> transform_point3(T, UNIT_CUBE[k])] IN
    [i \in 1..Len(BoxEdges) |->
        << corners[BoxEdges[i][1] + 1], corners[BoxEdges[i][2] + 1] >>]

\* ------------------------------------------------- sizes, colors, identity
\* re_renderer::Size: the AUTO sentinel or a scene-space size.
AUTO == [kind |-> "auto", v |-> 0, boosted |-> FALSE]

new_scene(v) == [kind |-> "scene", v |-> v, boosted |-> FALSE]

\* SceneSpatial::hover_size_boost: the size enlarged by the fixed boost.
hover_size_boost(size) == [size EXCEPT !.boosted = TRUE]

\* Conversion of a [u8; 4] to the UI color type.
to_ecolor(c) == [r |-> c[1], g |-> c[2], b |-> c[3], a |-> c[4]]

\* SceneSpatial::HOVER_COLOR, the highlight color.
HOVER_COLOR == [r |-> 255, g |-> 200, b |-> 200, a |-> 255]

\* ColorRGBA is a newtype over the four channels; to_array unpacks it.
ColorRGBA(c) == [rgba |-> c]

to_array(c) == c.rgba

\* InstanceIdHash: NONE, or the hash of an entity path (1, 2, ...) and a row.
NONE == <<0, 0>>

is_some(hash) == hash # NONE

from_path_and_arrow_instance(ent_path, instance) == <<ent_path, instance>>

instance_hash_if_interactive(obj_path, instance_index, interactive) ==
    IF interactive /\ IsSome(instance_index)
    THEN <<obj_path, Unwrap(instance_index)>>
    ELSE NONE

\* -------------------------------------------------------------- annotations
\* The annotation context: class 7 has a color and a label, any other class
\* (and no class) has neither.
RED == <<255, 0, 0, 255>>

\* The class ids the annotation context describes.
AnnotatedClasses == {7}

\* annotations.class_description(class_id).annotation_info()
annotation_info(class_id) ==
    IF IsSome(class_id) /\ Unwrap(class_id) \in AnnotatedClasses
    THEN [color |-> Some(RED), label |-> Some("class7")]
    ELSE [color |-> None, label |-> None]

\* DefaultColor::ObjPath(path) resolves to a color derived from the path.
DefaultColor(obj_path) == <<(obj_path * 40) % 256, 128, 128, 255>>

\* AnnotationInfo::color: the instance's color, else the class's, else the default.
annotation_color(info, color, default_color) ==
    IF IsSome(color) THEN Unwrap(color)
    ELSE IF IsSome(info.color) THEN Unwrap(info.color)
    ELSE default_color

\* AnnotationInfo::label: the instance's label, else the class's, else none.
annotation_label(info, label) ==
    IF IsSome(label) THEN label ELSE info.label

\* ------------------------------------------------------------------- scene
EmptyScene == [num_logged_3d_objects |-> 0, line_strips |-> <<>>, labels_3d |-> <<>>]

\* scene.primitives.line_strips.batch("box 3d").world_from_obj(world_from_obj)
open_batch(scene, world_from_obj) ==
    [scene EXCEPT !.line_strips =
        Append(@, [label |-> "box 3d", world_from_obj |-> world_from_obj, strips |-> <<>>])]

\* line_batch.add_segments(segments).radius(radius).color(color).user_data(hash):
\* every added segment gets the radius, the color and the identity.
add_segments(scene, segments, radius, color, user_data) ==
    LET n == Len(scene.line_strips)
        added == [i \in 1..Len(segments) |->
                    [a |-> segments[i][1], b |-> segments[i][2],
                     radius |-> radius, color |-> color, user_data |-> user_data]]
    IN [scene EXCEPT !.line_strips[n].strips = @ \o added]

push_label(scene, text, origin) ==
    [scene EXCEPT !.labels_3d = Append(@, [text |-> text, origin |-> origin])]

\* ------------------------------------------------- Boxes3DPartClassic::load
\* The record the legacy store holds for a row of the columnar store: one
\* box with its pose (absent rotation = identity, absent position = origin),
\* the stroke width and the class id as an i32.
LegacyRecord(row) ==
    [instance_index |-> Some(row.instance),
     obb |-> [half_size |-> row.half_size,
              rotation |-> IF IsSome(row.rotation) THEN Unwrap(row.rotation) ELSE QuatIdentity,
              translation |-> IF IsSome(row.position) THEN Unwrap(row.position) ELSE ZERO],
     color |-> IF IsSome(row.color) THEN Some(to_array(Unwrap(row.color))) ELSE None,
     stroke_width |-> row.radius,
     label |-> row.label,
     class_id |-> row.class_id]

ClassicLineRadius(stroke_width) ==
    IF IsSome(stroke_width) THEN new_scene(Unwrap(stroke_width) \div 2) ELSE AUTO

ClassicIsHovered(instance_hash, hovered) ==
    is_some(instance_hash) /\ instance_hash = hovered

\* The visitor closure of Boxes3DPartClassic::load, applied to one record.
ClassicVisitor(scene, obj_path, world_from_obj, interactive, hovered, rec) ==
    LET line_radius == ClassicLineRadius(rec.stroke_width)
        info == annotation_info(
                    IF IsSome(rec.class_id) THEN Some(Unwrap(rec.class_id) % 65536) ELSE None)
        color == to_ecolor(annotation_color(info, rec.color, DefaultColor(obj_path)))
        label == annotation_label(info, rec.label)
        scene1 == IF IsSome(label)
                  THEN push_label(scene, Unwrap(label),
                                  transform_point3(world_from_obj, rec.obb.translation))
                  ELSE scene
        instance_hash == instance_hash_if_interactive(obj_path, rec.instance_index, interactive)
        hit == ClassicIsHovered(instance_hash, hovered)
        T == from_scale_rotation_translation(rec.obb.half_size, rec.obb.rotation,
                                             rec.obb.translation)
    IN add_segments(scene1, transformed_box_segments(T),
                    IF hit THEN hover_size_boost(line_radius) ELSE line_radius,
                    IF hit THEN HOVER_COLOR ELSE color,
                    instance_hash)

\* visit_type_data_4: the visitor is called once per record, in order.
RECURSIVE visit_type_data_4(_, _, _, _, _, _)
visit_type_data_4(scene, obj_path, world_from_obj, interactive, hovered, rows) ==
    IF rows = <<>> THEN scene
    ELSE visit_type_data_4(
            ClassicVisitor(scene, obj_path, world_from_obj, interactive, hovered,
                           LegacyRecord(Head(rows))),
            obj_path, world_from_obj, interactive, hovered, Tail(rows))

\* One iteration of the for loop of Boxes3DPartClassic::load.
ClassicIteration(scene, obj_path, ent, hovered) ==
    LET counted == [scene EXCEPT !.num_logged_3d_objects = @ + 1] IN
    IF ~IsSome(ent.reach) THEN counted
    ELSE visit_type_data_4(open_batch(counted, Unwrap(ent.reach)), obj_path,
                           Unwrap(ent.reach), ent.interactive, hovered, ent.rows)

\* -------------------------------------------------------- Boxes3DPart::load
Ok == <<"Ok">>
Err(e) == <<"Err", e>>
IsErr(res) == res[1] = "Err"

\* A variant that ignores the entity's interactive flag.
ArrowInstanceHashAlways(interactive, ent_path, instance) ==
    from_path_and_arrow_instance(ent_path, instance)

ArrowInstanceHash(interactive, ent_path, instance) ==
    IF interactive THEN from_path_and_arrow_instance(ent_path, instance) ELSE NONE

ArrowRadius(radius) ==
    IF IsSome(radius) THEN new_scene(Unwrap(radius)) ELSE AUTO

\* A variant that drops the instance's own color.
ArrowColorNoRaw(info, color, default_color) ==
    to_ecolor(annotation_color(info, None, default_color))

ArrowColor(info, color, default_color) ==
    to_ecolor(annotation_color(info,
        IF IsSome(color) THEN Some(to_array(Unwrap(color))) ELSE None, default_color))

ArrowIsHovered(instance_hash, hovered) ==
    is_some(instance_hash) /\ instance_hash = hovered

\* The visitor closure of Boxes3DPart::process_entity_view, applied to one row.
ArrowVisitor(scene, interactive, hovered, ent_path, world_from_obj, row) ==
    LET instance_hash == ArrowInstanceHash(interactive, ent_path, row.instance)
        info == annotation_info(row.class_id)
        radius == ArrowRadius(row.radius)
        color == ArrowColor(info, row.color, DefaultColor(ent_path))
        hit == ArrowIsHovered(instance_hash, hovered)
        rot == IF IsSome(row.rotation) THEN Unwrap(row.rotation) ELSE QuatIdentity
        tran == IF IsSome(row.position) THEN Unwrap(row.position) ELSE ZERO
        T == from_scale_rotation_translation(row.half_size, rot, tran)
        scene1 == add_segments(scene, transformed_box_segments(T),
                               IF hit THEN hover_size_boost(radius) ELSE radius,
                               IF hit THEN HOVER_COLOR ELSE color,
                               instance_hash)
        label == annotation_label(info, row.label)
    IN IF IsSome(label)
       THEN push_label(scene1, Unwrap(label), transform_point3(world_from_obj, tran))
       ELSE scene1

RECURSIVE VisitRows(_, _, _, _, _, _)
VisitRows(scene, interactive, hovered, ent_path, world_from_obj, rows) ==
    IF rows = <<>> THEN scene
    ELSE VisitRows(
            ArrowVisitor(scene, interactive, hovered, ent_path, world_from_obj, Head(rows)),
            interactive, hovered, ent_path, world_from_obj, Tail(rows))

\* EntityView::visit7: the component iterators are built first, and a fault
\* in building them is returned before the visitor is called; otherwise the
\* visitor is called once per row, in order.
visit7(scene, entity_view, interactive, hovered, ent_path, world_from_obj) ==
    IF IsSome(entity_view.visit_err)
    THEN [scene |-> scene, result |-> Err(Unwrap(entity_view.visit_err))]
    ELSE [scene |-> VisitRows(scene, interactive, hovered, ent_path, world_from_obj,
                              entity_view.rows),
          result |-> Ok]

process_entity_view(scene, interactive, hovered, entity_view, ent_path, world_from_obj) ==
    LET counted == [scene EXCEPT !.num_logged_3d_objects = @ + 1] IN
    visit7(open_batch(counted, world_from_obj), entity_view, interactive, hovered,
           ent_path, world_from_obj)

\* query_entity_with_primary::<Box3D>: the store's answer for the entity.
query_entity_with_primary(ent) ==
    IF IsSome(ent.query_err) THEN Err(Unwrap(ent.query_err))
    ELSE <<"Ok", [rows |-> ent.rows, visit_err |-> ent.visit_err]>>

\* re_log::error_once!: a message is emitted unless it was emitted before.
error_once(entries, msg) ==
    IF \E i \in 1..Len(entries) : entries[i] = msg THEN entries ELSE Append(entries, msg)

\* Variants of the match on the query's result: one that reports every
\* error, one that reports none.
ReportEveryError(entries, ent_path, result) ==
    IF IsErr(result) THEN error_once(entries, [ent_path |-> ent_path, err |-> result[2]])
    ELSE entries

ReportNoError(entries, ent_path, result) == entries

\* The match on the result: Ok and PrimaryNotFound are silent, any other
\* error is reported.
ReportResult(entries, ent_path, result) ==
    IF IsErr(result) /\ result[2] # "PrimaryNotFound"
    THEN error_once(entries, [ent_path |-> ent_path, err |-> result[2]])
    ELSE entries

\* One iteration of the for loop of Boxes3DPart::load.
ArrowIteration(scene, entries, ent_path, ent, hovered) ==
    IF ~IsSome(ent.reach) THEN [scene |-> scene, log |-> entries]
    ELSE LET q == query_entity_with_primary(ent)
             r == IF IsErr(q) THEN [scene |-> scene, result |-> q]
                  ELSE process_entity_view(scene, ent.interactive, hovered, q[2],
                                           ent_path, Unwrap(ent.reach))
         IN [scene |-> r.scene, log |-> ReportResult(entries, ent_path, r.result)]

\* ------------------------------------------------------------------ inputs
IdentityAffine == [m |-> << <<1, 0, 0>>, <<0, 1, 0>>, <<0, 0, 1>> >>, t |-> ZERO]

\* The transform resolver's answers: Unreachable, or Reachable(world_from_obj).
ReachSet == {None, Some([m |-> IdentityAffine.m, t |-> <<0, 0, 4>>])}

QueryErrors == {"PrimaryNotFound", "TypeMismatch"}

GREEN == <<0, 255, 0, 255>>

\* A row with no optional component, and a row with all of them.
BareRow(k) ==
    [instance |-> k, half_size |-> <<2, 2, 2>>, rotation |-> None, position |-> None,
     color |-> None, radius |-> None, label |-> None, class_id |-> None]

FullRow(k) ==
    [instance |-> k, half_size |-> <<2, 4, 6>>, rotation |-> Some(<<0, 0, 1, 0>>),
     position |-> Some(<<2, 0, 0>>), color |-> Some(ColorRGBA(GREEN)),
     radius |-> Some(4), label |-> Some("box"), class_id |-> Some(7)]

ListRows(k) == {BareRow(k), FullRow(k)}

\* Every combination of the optional display attributes, on a posed box.
AttrRows(k) ==
    { [FullRow(k) EXCEPT !.color = c, !.class_id = cl, !.radius = r, !.label = l] :
        c \in {None, Some(ColorRGBA(GREEN))}, cl \in {None, Some(7), Some(9)},
        r \in {None, Some(4)}, l \in {None, Some("box")} }

\* The row sequences of length n whose k-th row has instance key k.
RowSeqs(rows, n) == { s \in [1..n -> rows] : \A k \in 1..n : s[k].instance = k }

ListRowSeqs(n) == RowSeqs(UNION {ListRows(k) : k \in 1..n}, n)

AttrRowSeqs(n) == RowSeqs(UNION {AttrRows(k) : k \in 1..n}, n)

\* An entity: the transform resolver's answer, props.interactive, and what
\* the store answers for it.  A failed query has no view, hence no rows.
Entities(rowSeqs, interactives) ==
    { e \in [reach : ReachSet, interactive : interactives,
             query_err : {None} \cup {Some(q) : q \in QueryErrors},
             visit_err : {None, Some("TypeMismatch")}, rows : rowSeqs] :
        IsSome(e.query_err) => (e.rows = <<>> /\ ~IsSome(e.visit_err)) }

RECURSIVE TotalRows(_)
TotalRows(list) == IF list = <<>> THEN 0 ELSE Len(Head(list).rows) + TotalRows(Tail(list))

\* Lists of entities: the per-instance attributes and the interactive flag
\* vary in AttrEntities, the list's shape and the entities' faults vary here.
ListEntities == Entities(UNION {ListRowSeqs(n) : n \in 0..MaxInstances}, {TRUE})

\* Entities with at most one instance each.
LiveEntities == Entities(ListRowSeqs(0) \cup ListRowSeqs(1), {TRUE})

AttrEntities ==
    Entities(AttrRowSeqs(0) \cup AttrRowSeqs(1) \cup AttrRowSeqs(2),
             BOOLEAN)

HoveredSet == {NONE, from_path_and_arrow_instance(1, 1)}

\* A few affine transforms: scaled, rotated and translated boxes, a shear
\* and a degenerate (flattening) map.
GeomTransforms ==
    { from_scale_rotation_translation(<<sx, sy, sz>>, q, t) :
        sx \in {1, 2}, sy \in {1, 3}, sz \in {1, 2, 5},
        q \in {QuatIdentity, <<1, 0, 0, 0>>, <<0, 1, 0, 0>>, <<0, 0, 1, 0>>},
        t \in {ZERO, <<1, -2, 3>>} }
    \cup { [m |-> << <<1, 1, 0>>, <<0, 1, 0>>, <<0, 2, 1>> >>, t |-> <<0, 1, 0>>],
           [m |-> << <<1, 0, 0>>, <<0, 1, 0>>, <<0, 0, 0>> >>, t |-> ZERO] }

\* ------------------------------------------------------------ state machine
\* No data logged yet, no frame started.
Init ==
    /\ entities = <<>>
    /\ hovered_instance = NONE
    /\ phase = "setup"
    /\ idx = 1
    /\ classic_scene = EmptyScene
    /\ arrow_scene = EmptyScene
    /\ log = <<>>
    /\ transform = IdentityAffine
    /\ geom_out = <<>>

GeomInit ==
    /\ entities = <<>>
    /\ hovered_instance = NONE
    /\ phase = "geom"
    /\ idx = 1
    /\ classic_scene = EmptyScene
    /\ arrow_scene = EmptyScene
    /\ log = <<>>
    /\ transform \in GeomTransforms
    /\ geom_out = <<>>

\* The data of one more entity is logged before the frame.
LogEntity ==
    /\ phase = "setup"
    /\ Len(entities) < MaxEntities
    /\ \E e \in ListEntities :
        /\ TotalRows(entities) + Len(e.rows) <= MaxInstances
        /\ entities' = Append(entities, e)
    /\ UNCHANGED <<hovered_instance, phase, idx, classic_scene, arrow_scene, log,
                   transform, geom_out>>

\* The data of one more entity, with at most one instance, is logged.
LogLiveEntity ==
    /\ phase = "setup"
    /\ Len(entities) < MaxEntities
    /\ \E e \in LiveEntities :
        /\ TotalRows(entities) + Len(e.rows) <= MaxInstances
        /\ entities' = Append(entities, e)
    /\ UNCHANGED <<hovered_instance, phase, idx, classic_scene, arrow_scene, log,
                   transform, geom_out>>

\* A single entity is logged, with any combination of display attributes.
LogAttrEntity ==
    /\ phase = "setup"
    /\ entities = <<>>
    /\ \E e \in AttrEntities : entities' = <<e>>
    /\ UNCHANGED <<hovered_instance, phase, idx, classic_scene, arrow_scene, log,
                   transform, geom_out>>

\* The frame starts: the scene loader calls Boxes3DPartClassic::load with the
\* hovered instance of the frame.
BeginFrame ==
    /\ phase = "setup"
    /\ \E h \in HoveredSet : hovered_instance' = h
    /\ phase' = "classic"
    /\ idx' = 1
    /\ UNCHANGED <<entities, classic_scene, arrow_scene, log, transform, geom_out>>

\* Boxes3DPartClassic::load, one entity of the list.
ClassicLoadEntity ==
    /\ phase = "classic"
    /\ idx <= Len(entities)
    /\ classic_scene' = ClassicIteration(classic_scene, idx, entities[idx], hovered_instance)
    /\ idx' = idx + 1
    /\ UNCHANGED <<entities, hovered_instance, phase, arrow_scene, log, transform, geom_out>>

\* Boxes3DPartClassic::load returns; Boxes3DPart::load is called next.
ClassicLoadReturn ==
    /\ phase = "classic"
    /\ idx > Len(entities)
    /\ phase' = "arrow"
    /\ idx' = 1
    /\ UNCHANGED <<entities, hovered_instance, classic_scene, arrow_scene, log,
                   transform, geom_out>>

\* A variant of the loop that returns at the first reported error.
ArrowLoadEntityAbort ==
    /\ phase = "arrow"
    /\ idx <= Len(entities)
    /\ LET r == ArrowIteration(arrow_scene, log, idx, entities[idx], hovered_instance) IN
        /\ arrow_scene' = r.scene
        /\ log' = r.log
        /\ idx' = IF r.log # log THEN Len(entities) + 1 ELSE idx + 1
    /\ UNCHANGED <<entities, hovered_instance, phase, classic_scene, transform, geom_out>>

\* Boxes3DPart::load, one entity of the list.
ArrowLoadEntity ==
    /\ phase = "arrow"
    /\ idx <= Len(entities)
    /\ LET r == ArrowIteration(arrow_scene, log, idx, entities[idx], hovered_instance) IN
        /\ arrow_scene' = r.scene
        /\ log' = r.log
    /\ idx' = idx + 1
    /\ UNCHANGED <<entities, hovered_instance, phase, classic_scene, transform, geom_out>>

\* Boxes3DPart::load returns.
ArrowLoadReturn ==
    /\ phase = "arrow"
    /\ idx > Len(entities)
    /\ phase' = "done"
    /\ UNCHANGED <<entities, hovered_instance, idx, classic_scene, arrow_scene, log,
                   transform, geom_out>>

\* A direct call of transformed_box_segments.
GeomCall ==
    /\ phase = "geom"
    /\ geom_out = <<>>
    /\ geom_out' = transformed_box_segments(transform)
    /\ UNCHANGED <<entities, hovered_instance, phase, idx, classic_scene, arrow_scene,
                   log, transform>>

Loads == ClassicLoadEntity \/ ClassicLoadReturn \/ ArrowLoadEntity \/ ArrowLoadReturn

Next == LogEntity \/ BeginFrame \/ Loads

AttrNext == LogAttrEntity \/ BeginFrame \/ Loads

LiveNext == LogLiveEntity \/ BeginFrame \/ Loads

GeomNext == GeomCall

Spec == Init /\ [][Next]_vars

AttrSpec == Init /\ [][AttrNext]_vars

GeomSpec == GeomInit /\ [][GeomNext]_vars

\* The loop control of the two loads: the for loops' cursor and the returns.
\* Within [][LiveNext]_vars its steps are exactly the steps of Loads.
Advance ==
    \/ phase \in {"classic", "arrow"} /\ idx <= Len(entities)
        /\ idx' = idx + 1 /\ phase' = phase
    \/ phase = "classic" /\ idx > Len(entities) /\ phase' = "arrow" /\ idx' = 1
    \/ phase = "arrow" /\ idx > Len(entities) /\ phase' = "done" /\ idx' = idx

\* The loads run synchronously on one thread, with blocking queries and no
\* suspension point: a load that can step does.
LiveSpec == Init /\ [][LiveNext]_vars /\ WF_<<phase, idx>>(Advance)

\* ------------------------------------------------------------- properties
RECURSIVE AllStrips(_)
AllStrips(batches) ==
    IF batches = <<>> THEN <<>> ELSE Head(batches).strips \o AllStrips(Tail(batches))

Segments(scene) == AllStrips(scene.line_strips)

NonEmptyBatches(scene) ==
    Cardinality({i \in 1..Len(scene.line_strips) : scene.line_strips[i].strips # <<>>})

ClassicDone(k) == (phase = "classic" /\ k < idx) \/ phase \in {"arrow", "done"}

ArrowDone(k) == (phase = "arrow" /\ k < idx) \/ phase = "done"

ClassicStepOn(k) == phase = "classic" /\ idx = k /\ idx' = k + 1

ArrowStepOn(k) == phase = "arrow" /\ idx = k /\ idx' = k + 1

NothingAppended(before, after) ==
    /\ Segments(after) = Segments(before)
    /\ after.labels_3d = before.labels_3d

Reachable(e) == IsSome(e.reach)

\* The error the columnar processing of an entity ends with, if any.
FaultOf(e) ==
    IF IsSome(e.query_err) THEN e.query_err ELSE e.visit_err

\* C1: an entity whose transform is Unreachable gets no segment, no label
\* and no increment of the object counter, in either load.
C1_ReachabilityGating ==
    [][\A k \in 1..Len(entities) :
          ~Reachable(entities[k]) =>
            /\ ClassicStepOn(k) =>
                 /\ NothingAppended(classic_scene, classic_scene')
                 /\ classic_scene'.num_logged_3d_objects = classic_scene.num_logged_3d_objects
            /\ ArrowStepOn(k) =>
                 /\ NothingAppended(arrow_scene, arrow_scene')
                 /\ arrow_scene'.num_logged_3d_objects = arrow_scene.num_logged_3d_objects
      ]_vars

\* C2: in the columnar load, an entity whose processing ends with a query
\* error other than PrimaryNotFound gets exactly one log entry, and no
\* segment and no label.
C2_QueryFaultLoggedOnce ==
    [][\A k \in 1..Len(entities) :
          (/\ ArrowStepOn(k)
           /\ Reachable(entities[k])
           /\ IsSome(FaultOf(entities[k]))
           /\ FaultOf(entities[k]) # Some("PrimaryNotFound")) =>
            /\ Len(log') = Len(log) + 1
            /\ SubSeq(log', 1, Len(log)) = log
            /\ log'[Len(log')].ent_path = k
            /\ \A i \in 1..Len(log) : log[i].ent_path # k
            /\ NothingAppended(arrow_scene, arrow_scene')
      ]_vars

C2_Witness ==
    \E k \in 1..Len(entities) :
        /\ ArrowDone(k)
        /\ Reachable(entities[k])
        /\ IsSome(entities[k].visit_err)
        /\ entities[k].rows # <<>>
        /\ \E i \in 1..Len(log) : log[i].ent_path = k

\* C3: in the columnar load, a reachable entity whose query returns
\* PrimaryNotFound leaves the scene and the log as they were.
C3_PrimaryNotFoundSilent ==
    [][\A k \in 1..Len(entities) :
          (/\ ArrowStepOn(k)
           /\ Reachable(entities[k])
           /\ entities[k].query_err = Some("PrimaryNotFound")) =>
            /\ arrow_scene' = arrow_scene
            /\ log' = log
      ]_vars

C3_Witness ==
    /\ phase = "done"
    /\ Segments(arrow_scene) # <<>>
    /\ \E k \in 1..Len(entities) :
        /\ Reachable(entities[k])
        /\ entities[k].query_err = Some("PrimaryNotFound")

\* C4: after a load the object counter equals the number of entities that
\* contributed at least one instance (the batches that hold a segment).
C4_ObjectCounter ==
    /\ phase \in {"arrow", "done"} =>
         classic_scene.num_logged_3d_objects = NonEmptyBatches(classic_scene)
    /\ phase = "done" =>
         arrow_scene.num_logged_3d_objects = NonEmptyBatches(arrow_scene)

\* C5: over the same entities the two loads append the same segments (with
\* color, radius and identity), the same labels and count the same objects.
C5_VariantsEquivalent ==
    phase = "done" =>
        /\ Segments(classic_scene) = Segments(arrow_scene)
        /\ classic_scene.labels_3d = arrow_scene.labels_3d
        /\ classic_scene.num_logged_3d_objects = arrow_scene.num_logged_3d_objects

\* The row the j-th segment of an entity's batch was made from.
RowOfStrip(e, j) == e.rows[((j - 1) \div Len(BoxEdges)) + 1]

Highlighted(strip) == strip.user_data # NONE /\ strip.user_data = hovered_instance

\* The color by precedence: the instance's, else the class's, else the default.
ResolvedColor(ent_path, row) ==
    IF IsSome(row.color) THEN to_ecolor(to_array(Unwrap(row.color)))
    ELSE IF IsSome(annotation_info(row.class_id).color)
         THEN to_ecolor(Unwrap(annotation_info(row.class_id).color))
         ELSE to_ecolor(DefaultColor(ent_path))

\* The segments of the scenes, with the row each was made from (stores of
\* one entity: every batch is that entity's).
StripsOf(sc) ==
    UNION { { [strip |-> sc.line_strips[b].strips[j], row |-> RowOfStrip(entities[1], j)] :
                j \in 1..Len(sc.line_strips[b].strips) } :
            b \in 1..Len(sc.line_strips) }

StripsWithRows == StripsOf(classic_scene) \cup StripsOf(arrow_scene)

\* C6: a segment's color is HOVER_COLOR when its instance's identity is not
\* NONE and is the hovered one, else the instance's color, else the class's
\* color, else the entity's default color.
C6_ColorPrecedence ==
    Len(entities) = 1 =>
        \A sr \in StripsWithRows :
            sr.strip.color = IF Highlighted(sr.strip) THEN HOVER_COLOR
                             ELSE ResolvedColor(1, sr.row)

C6_Witness ==
    /\ phase = "done"
    /\ Len(entities) = 1
    /\ Len(entities[1].rows) = 2
    /\ entities[1].interactive
    /\ hovered_instance = from_path_and_arrow_instance(1, 1)
    /\ IsSome(entities[1].rows[1].color)
    /\ IsSome(entities[1].rows[2].color)
    /\ entities[1].rows[2].class_id = Some(7)
    /\ \E sr \in StripsWithRows : sr.strip.color = HOVER_COLOR
    /\ \E sr \in StripsWithRows : sr.strip.color = to_ecolor(GREEN)
    /\ Segments(arrow_scene) # <<>>

\* C7: a segment that is not highlighted has the scene-space radius of half
\* the instance's stroke width / radius, and AUTO when the instance has none.
C7_RadiusHalved ==
    Len(entities) = 1 =>
        \A sr \in StripsWithRows :
            ~Highlighted(sr.strip) =>
                sr.strip.radius = IF IsSome(sr.row.radius)
                                  THEN new_scene(Unwrap(sr.row.radius) \div 2)
                                  ELSE AUTO

\* Two corners of the unit cube that differ in the sign of one coordinate.
CubeEdge(p, q) == Cardinality({c \in 1..3 : p[c] # q[c]}) = 1

\* C8: transformed_box_segments(T) is 12 pairs in an order that does not
\* depend on T; each is the image under T of a cube edge (two corners of
\* UNIT_CUBE that differ in one coordinate's sign), and no edge comes twice.
C8_TwelveCubeEdges ==
    geom_out # <<>> =>
        LET fixed == transformed_box_segments(IdentityAffine) IN
        /\ Len(geom_out) = 12
        /\ \A i \in 1..Len(geom_out) :
            \E a \in 1..Len(UNIT_CUBE), b \in 1..Len(UNIT_CUBE) :
                /\ CubeEdge(UNIT_CUBE[a], UNIT_CUBE[b])
                /\ geom_out[i] = << transform_point3(transform, UNIT_CUBE[a]),
                                    transform_point3(transform, UNIT_CUBE[b]) >>
                /\ fixed[i] = << UNIT_CUBE[a], UNIT_CUBE[b] >>
        /\ Cardinality({ {fixed[i][1], fixed[i][2]} : i \in 1..Len(fixed) }) = 12
        /\ (Cardinality({transform_point3(transform, UNIT_CUBE[a]) : a \in 1..Len(UNIT_CUBE)})
              = Len(UNIT_CUBE)) =>
             Cardinality({ {geom_out[i][1], geom_out[i][2]} : i \in 1..Len(geom_out) }) = 12

C8_Witness ==
    /\ geom_out # <<>>
    /\ transform.t # ZERO
    /\ transform.m[1][1] < 0
    /\ transform.m[3][3] = 5
    /\ geom_out[1] # geom_out[2]

\* C9: an entity that is not interactive has the NONE identity on every
\* segment, and neither its color nor its radius is the highlight's,
\* whatever is hovered.
C9_NonInteractiveNeverHighlighted ==
    (Len(entities) = 1 /\ ~entities[1].interactive) =>
        \A sr \in StripsWithRows :
            /\ sr.strip.user_data = NONE
            /\ sr.strip.color = ResolvedColor(1, sr.row)
            /\ ~sr.strip.radius.boosted

C9_Witness ==
    /\ phase = "done"
    /\ Len(entities) = 1
    /\ ~entities[1].interactive
    /\ hovered_instance = from_path_and_arrow_instance(1, 1)
    /\ Segments(classic_scene) # <<>>
    /\ Segments(arrow_scene) # <<>>

\* What Boxes3DPart::load makes of entity k when it is the only entity
\* loaded, and nothing when the entity is skipped.
Skipped(e) == ~Reachable(e) \/ IsSome(FaultOf(e))

Alone(k) ==
    IF Skipped(entities[k]) THEN EmptyScene
    ELSE ArrowIteration(EmptyScene, <<>>, k, entities[k], hovered_instance).scene

RECURSIVE SegmentsUpTo(_)
SegmentsUpTo(n) ==
    IF n = 0 THEN <<>> ELSE SegmentsUpTo(n - 1) \o Segments(Alone(n))

RECURSIVE LabelsUpTo(_)
LabelsUpTo(n) ==
    IF n = 0 THEN <<>> ELSE LabelsUpTo(n - 1) \o Alone(n).labels_3d

\* C10: Boxes3DPart::load returns, having visited the entities once each in
\* list order: what it appended is, in order, what each entity that was not
\* skipped gets when loaded alone, whatever happened to the entities before.
C10_FrameCompletes ==
    /\ (phase = "arrow") ~> (phase = "done")
    /\ [](phase = "arrow" => idx <= Len(entities) + 1)
    /\ [](phase \in {"arrow", "done"} =>
            LET n == IF phase = "done" THEN Len(entities) ELSE idx - 1 IN
            /\ Segments(arrow_scene) = SegmentsUpTo(n)
            /\ arrow_scene.labels_3d = LabelsUpTo(n))

C10_Witness ==
    /\ phase = "done"
    /\ Len(entities) = 2
    /\ Reachable(entities[1])
    /\ FaultOf(entities[1]) = Some("TypeMismatch")
    /\ ~Skipped(entities[2])
    /\ entities[2].rows # <<>>
    /\ Segments(arrow_scene) # <<>>
    /\ arrow_scene.labels_3d # <<>>
    /\ Len(log) = 1

====
